---- MODULE Spec2Model ----
(***************************************************************************)
(* Model of src/app.py: the document orchestrator's three helpers          *)
(* (extract_text_from_file, extract_structured_data, send_to_n8n) and the  *)
(* Streamlit script main(), one action per script run.                     *)
(*                                                                         *)
(* Text is a sequence of character codes (96 is the backtick, 10 the       *)
(* newline, 32 the space), so that str.strip, str.replace, str.endswith    *)
(* and bytes.decode are computed character by character.  Python's None    *)
(* is the one-element sequence None, whose element is no character code.   *)
(***************************************************************************)
EXTENDS Integers, Sequences, FiniteSets, TLC

VARIABLES
    \* st.session_state (app.py 137-142)
    raw_text, structured_data, question,
    \* widget values of the page (app.py 145-150, 200-204)
    uploaded_file, question_input, recipient_email,
    \* what the last script run did: button, external calls, UI output
    last,
    \* the inputs and output of the last extraction run that reached
    \* app.py 170-172
    run,
    \* the fence-stripping step applied to one response text, twice
    s_in, s_pc, s_once, s_twice,
    \* the page loop of extract_text_from_file on one PDF
    pages, page_i, full_text, p_pc

sessionVars == <<raw_text, structured_data, question>>
widgetVars == <<uploaded_file, question_input, recipient_email>>
appVars == <<raw_text, structured_data, question, uploaded_file,
             question_input, recipient_email, last, run>>
stripVars == <<s_in, s_pc, s_once, s_twice>>
pdfVars == <<pages, page_i, full_text, p_pc>>
vars == <<raw_text, structured_data, question, uploaded_file,
          question_input, recipient_email, last, run,
          s_in, s_pc, s_once, s_twice, pages, page_i, full_text, p_pc>>

\* ------------------------------------------------------------------ bounds

\* Longest response text given to the fence-stripping step, in pieces.
MaxPieces == 3
\* Most pages of a PDF given to the page loop.
MaxPages == 3

\* ------------------------------------------------------------- Python text

None == <<-1>>

\* str.isspace() on the ASCII range
IsSpace(c) == c \in {9, 10, 11, 12, 13, 28, 29, 30, 31, 32}

RECURSIVE lstrip(_)
lstrip(s) ==
    IF s = <<>> THEN <<>>
    ELSE IF IsSpace(Head(s)) THEN lstrip(Tail(s)) ELSE s

RECURSIVE rstrip(_)
rstrip(s) ==
    IF s = <<>> THEN <<>>
    ELSE IF IsSpace(s[Len(s)]) THEN rstrip(SubSeq(s, 1, Len(s) - 1)) ELSE s

\* str.strip()
strip(s) == rstrip(lstrip(s))

\* str.endswith(suffix)
endswith(s, suffix) ==
    /\ Len(s) >= Len(suffix)
    /\ SubSeq(s, Len(s) - Len(suffix) + 1, Len(s)) = suffix

\* str.replace(old, ""): every non-overlapping occurrence, left to right
RECURSIVE remove(_, _)
remove(s, old) ==
    IF Len(s) < Len(old) THEN s
    ELSE IF SubSeq(s, 1, Len(old)) = old
         THEN remove(SubSeq(s, Len(old) + 1, Len(s)), old)
         ELSE <<Head(s)>> \o remove(Tail(s), old)

\* Python truthiness of an optional text
Truthy(s) == s # None /\ s # <<>>

\* x or ""
OrEmpty(s) == IF Truthy(s) THEN s ELSE <<>>

RECURSIVE Concat(_)
Concat(ss) == IF ss = <<>> THEN <<>> ELSE Head(ss) \o Concat(Tail(ss))

RECURSIVE SeqsUpTo(_, _)
SeqsUpTo(S, n) ==
    IF n = 0 THEN {<<>>}
    ELSE LET shorter == SeqsUpTo(S, n - 1)
         IN  shorter \cup {Append(q, x) : q \in shorter, x \in S}

\* --------------------------------------------- extract_structured_data 88-96

\* the three literals of app.py 92-94: a fence tagged json, tagged JSON, bare
FenceJsonLower == <<96, 96, 96, 106, 115, 111, 110>>
FenceJsonUpper == <<96, 96, 96, 74, 83, 79, 78>>
Fence == <<96, 96, 96>>

clean_NoFinalStrip(raw) ==
    remove(remove(remove(strip(raw), FenceJsonLower), FenceJsonUpper), Fence)

\* app.py 88-96: strip, remove the three fence literals in turn, strip
clean(raw) ==
    strip(remove(remove(remove(strip(raw), FenceJsonLower), FenceJsonUpper),
                 Fence))

\* extract_structured_data: what it returns for a response, or raises.
\* A generate_content outcome g is [raises, exc, text]; text may be None.
extract_structured_data(g) ==
    IF g.raises
    THEN [exc |-> g.exc, value |-> None]
    ELSE [exc |-> "none", value |-> clean(OrEmpty(g.text))]

\* ------------------------------------------- extract_text_from_file 23-35

\* bytes.decode("utf-8") on one- and two-byte sequences; any other byte
\* of 128 or more is invalid here (255 never occurs in UTF-8)
RECURSIVE utf8_decode(_)
utf8_decode(b) ==
    IF b = <<>> THEN [ok |-> TRUE, text |-> <<>>]
    ELSE IF Head(b) < 128
    THEN LET rest == utf8_decode(Tail(b))
         IN  [ok |-> rest.ok, text |-> <<Head(b)>> \o rest.text]
    ELSE IF /\ Head(b) >= 194 /\ Head(b) <= 223 /\ Len(b) >= 2
            /\ b[2] >= 128 /\ b[2] <= 191
    THEN LET rest == utf8_decode(SubSeq(b, 3, Len(b)))
         IN  [ok |-> rest.ok,
              text |-> <<(Head(b) - 192) * 64 + (b[2] - 128)>> \o rest.text]
    ELSE [ok |-> FALSE, text |-> <<>>]

PageSegment_NoNewline(p) == OrEmpty(p)

\* app.py 32: (page.extract_text() or "") + "\n"
PageSegment(p) == OrEmpty(p) \o <<10>>

\* app.py 30-33: the loop over pdf.pages
RECURSIVE pdf_text(_)
pdf_text(ps) ==
    IF ps = <<>> THEN <<>> ELSE PageSegment(Head(ps)) \o pdf_text(Tail(ps))

SuffixTxt == <<46, 116, 120, 116>>
SuffixPdf == <<46, 112, 100, 102>>

\* What extract_text_from_file returns or raises, and the calls it makes.
extract_text_from_file(f) ==
    IF endswith(f.name, SuffixTxt)
    THEN LET d == utf8_decode(f.bytes)
         IN  IF d.ok THEN [exc |-> "none", text |-> d.text, calls |-> <<"read">>]
             ELSE [exc |-> "UnicodeDecodeError", text |-> None,
                   calls |-> <<"read">>]
    ELSE IF endswith(f.name, SuffixPdf)
    THEN [exc |-> "none", text |-> pdf_text(f.pages),
          calls |-> <<"pdfplumber.open">>]
    ELSE [exc |-> "none", text |-> <<>>, calls |-> <<>>]

\* ------------------------------------------------------ send_to_n8n 102-123

Msg(level, tag, status, body, exc) ==
    [level |-> level, tag |-> tag, status |-> status, body |-> body,
     exc |-> exc]

\* response bodies that json parses; every other body makes resp.json() raise
JsonTexts == {<<123, 125>>, <<91, 49, 93>>}

\* resp.json() raises json.JSONDecodeError, or the decode error of the
\* simplejson backend when requests was built on it, which is no subclass
\* of json.JSONDecodeError
BodyParseExceptions == {"json.JSONDecodeError", "simplejson.JSONDecodeError"}

\* The UI output of send_to_n8n for the outcome o of requests.post:
\* [kind, exc, status, body], kind "raise" or "response".
send_to_n8n(o, parse_exc) ==
    IF o.kind = "raise"
    THEN <<Msg("error", "n8n_exception", 0, <<>>, o.exc)>>
    ELSE IF o.status = 200
    THEN <<Msg("success", "sent_ok", 0, <<>>, "none"),
           Msg("subheader", "n8n_response", 0, <<>>, "none")>>
         \o (IF o.body \in JsonTexts
             THEN <<Msg("json", "n8n_json", 0, o.body, "none")>>
             ELSE IF parse_exc = "json.JSONDecodeError"
             THEN <<Msg("write", "n8n_text", 0, o.body, "none")>>
             ELSE <<Msg("error", "n8n_exception", 0, <<>>, parse_exc)>>)
    ELSE <<Msg("error", "n8n_status", o.status, o.body, "none")>>

\* -------------------------------------------------------- the environment

\* a.txt, a.pdf and a.PDF: the uploader accepts the upper-case extension,
\* which neither endswith test of app.py 25-28 matches
NameTxt == <<97>> \o SuffixTxt
NamePdf == <<97>> \o SuffixPdf
NameOther == <<97, 46, 80, 68, 70>>

File(name, bytes, ps) ==
    [present |-> TRUE, name |-> name, bytes |-> bytes, pages |-> ps]

\* the uploader's value before any upload (None in Python)
NoFile == [present |-> FALSE, name |-> <<>>, bytes |-> <<>>, pages |-> <<>>]

\* Uploads: text files (plain, accented, blank, empty, invalid UTF-8),
\* PDFs (no page, a page without text, pages with text), an a.PDF
Files ==
    {File(NameTxt, b, <<>>) :
        b \in {<<73, 35, 52>>, <<195, 169>>, <<32, 10>>, <<>>, <<255>>}}
    \cup {File(NamePdf, <<>>, ps) :
            ps \in {<<>>, <<None>>, <<<<>>>>, <<<<73>>, None>>}}
    \cup {File(NameOther, <<>>, <<<<73>>>>)}

Questions == {<<>>, <<32>>, <<113>>, <<114, 32>>}
Emails == {<<>>, <<32>>, <<101, 64, 120>>}

\* generate_content: raises, or returns a response whose text is None,
\* empty, fenced JSON, bare JSON, or prose
GenOutcomes ==
    {[raises |-> TRUE, exc |-> e, text |-> None] :
        e \in {"ServerError", "ClientError"}}
    \cup {[raises |-> FALSE, exc |-> "none", text |-> t] :
            t \in {None, <<>>, Fence, <<123, 125>>, <<110, 111>>,
                   FenceJsonLower \o <<10, 123, 125, 10>> \o Fence}}

\* requests.post: raises before a response arrives, or returns a response
PostOutcomes ==
    {[kind |-> "raise", exc |-> e, status |-> 0, body |-> <<>>] :
        e \in {"Timeout", "ConnectionError", "SSLError"}}
    \cup {[kind |-> "response", exc |-> "none", status |-> c, body |-> b] :
            c \in {200, 201, 403, 500},
            b \in {<<123, 125>>, <<111, 107>>, <<>>}}

NoPost == [kind |-> "none", exc |-> "none", status |-> 0, body |-> <<>>]
NoContext ==
    [question |-> None, structured_data |-> None, raw_text |-> None,
     recipient_email |-> None]
NoGen == [raises |-> FALSE, exc |-> "none", text |-> None]

\* --------------------------------------------------------------- main 130-218

\* One script run: the button pressed, the external calls issued in order,
\* the UI output in order, the exception that ended the run ("none" if it
\* returned), whether the results section with the send button was drawn.
Ran(action, calls, msgs, exc, rendered, text, gen, post, context) ==
    [action |-> action, calls |-> calls, msgs |-> msgs, exc |-> exc,
     rendered |-> rendered, text |-> text, gen |-> gen, post |-> post,
     context |-> context]

Error(tag) == Msg("error", tag, 0, <<>>, "none")

\* app.py 192: the preview shows at most this many characters
PreviewLimit == 4000

Preview(rt) ==
    IF Len(rt) <= PreviewLimit THEN rt ELSE SubSeq(rt, 1, PreviewLimit)

\* app.py 177: if st.session_state.structured_data
results_shown(sd) == Truthy(sd)

\* app.py 177-204: the results, shown only for a truthy structured_data
results_section(sd, rt) ==
    IF results_shown(sd)
    THEN <<Msg("code",
               IF sd \in JsonTexts THEN "structured_pretty"
               ELSE "structured_raw", 0, sd, "none"),
           Msg("text_area", "raw_text", 0,
               IF Truthy(rt) THEN Preview(rt) ELSE <<>>, "none")>>
    ELSE <<>>

QuestionMissing_NoStrip(q) == q = <<>>

\* app.py 156: not question.strip()
QuestionMissing(q) == strip(q) = <<>>

TextMissing_NoStrip(t) == t = <<>>

\* app.py 163: not raw_text.strip()
TextMissing(t) == strip(t) = <<>>

\* app.py 207: not recipient_email.strip()
EmailMissing(e) == strip(e) = <<>>

alert_context_FromWidget(q_widget, email) ==
    [question |-> q_widget, structured_data |-> structured_data,
     raw_text |-> raw_text, recipient_email |-> email]

\* app.py 210-216: the POST body, built from the session state; the
\* question widget's value q_widget is in scope and not used
alert_context(q_widget, email) ==
    [question |-> question, structured_data |-> structured_data,
     raw_text |-> raw_text, recipient_email |-> email]

NoRun ==
    [completed |-> FALSE, raw_text |-> None, structured_data |-> None,
     question |-> None]

\* A run with no button pressed (a widget changed): app.py 177-204 only.
Rerun ==
    /\ last' = Ran("rerun", <<>>, results_section(structured_data, raw_text),
                   "none", results_shown(structured_data), None, NoGen,
                   NoPost, NoContext)
    /\ UNCHANGED <<sessionVars, run, stripVars, pdfVars>>

SetFile(f) ==
    /\ f # uploaded_file
    /\ uploaded_file' = f
    /\ UNCHANGED <<question_input, recipient_email>>
    /\ Rerun

SetQuestion(q) ==
    /\ q # question_input
    /\ question_input' = q
    /\ UNCHANGED <<uploaded_file, recipient_email>>
    /\ Rerun

\* the recipient field exists only where the results section was drawn
SetRecipient(e) ==
    /\ last.rendered
    /\ e # recipient_email
    /\ recipient_email' = e
    /\ UNCHANGED <<uploaded_file, question_input>>
    /\ Rerun

\* The run with "Run Gemini Extraction" pressed: app.py 152-174, then the
\* results section of 177-204 when the run gets there.
Extract ==
    /\ UNCHANGED <<widgetVars, stripVars, pdfVars>>
    /\ IF ~uploaded_file.present
       THEN /\ last' = Ran("extract", <<>>, <<Error("need_file")>>, "none",
                           FALSE, None, NoGen, NoPost, NoContext)
            /\ UNCHANGED <<sessionVars, run>>
       ELSE IF QuestionMissing(question_input)
       THEN /\ last' = Ran("extract", <<>>, <<Error("need_question")>>,
                           "none", FALSE, None, NoGen, NoPost, NoContext)
            /\ UNCHANGED <<sessionVars, run>>
       ELSE LET r == extract_text_from_file(uploaded_file) IN
            IF r.exc # "none"
            THEN /\ last' = Ran("extract", r.calls, <<>>, r.exc, FALSE, None,
                                NoGen, NoPost, NoContext)
                 /\ UNCHANGED <<sessionVars, run>>
            ELSE IF TextMissing(r.text)
            THEN /\ last' = Ran("extract", r.calls, <<Error("no_text")>>,
                                "none", FALSE, r.text, NoGen, NoPost,
                                NoContext)
                 /\ UNCHANGED <<sessionVars, run>>
            ELSE \E g \in GenOutcomes :
                 LET x == extract_structured_data(g)
                     calls == r.calls \o <<"generate_content">>
                 IN  IF x.exc # "none"
                     THEN /\ last' = Ran("extract", calls, <<>>, x.exc, FALSE,
                                         r.text, g, NoPost, NoContext)
                          /\ UNCHANGED <<sessionVars, run>>
                     ELSE /\ raw_text' = r.text
                          /\ structured_data' = x.value
                          /\ question' = question_input
                          /\ run' = [completed |-> TRUE, raw_text |-> r.text,
                                     structured_data |-> x.value,
                                     question |-> question_input]
                          /\ last' =
                               Ran("extract", calls,
                                   <<Msg("success", "extraction_complete", 0,
                                         <<>>, "none")>>
                                   \o results_section(x.value, r.text),
                                   "none", results_shown(x.value), r.text, g,
                                   NoPost, NoContext)

\* The run with "Send Alert Mail" pressed: app.py 177-218.  The button is
\* on the page only where the last run drew the results section.
Send ==
    /\ last.rendered
    /\ UNCHANGED <<sessionVars, widgetVars, run, stripVars, pdfVars>>
    /\ IF ~results_shown(structured_data)
       THEN last' = Ran("send", <<>>, <<>>, "none", FALSE, None, NoGen,
                        NoPost, NoContext)
       ELSE IF EmailMissing(recipient_email)
       THEN last' = Ran("send", <<>>,
                        results_section(structured_data, raw_text)
                        \o <<Error("need_email")>>,
                        "none", TRUE, None, NoGen, NoPost, NoContext)
       ELSE \E o \in PostOutcomes, parse_exc \in BodyParseExceptions :
            last' = Ran("send", <<"requests.post">>,
                        results_section(structured_data, raw_text)
                        \o send_to_n8n(o, parse_exc),
                        "none", TRUE, None, NoGen, o,
                        alert_context(question_input, recipient_email))

\* --------------------------------------- the fence-stripping step, twice

Pieces ==
    {<<96>>, <<96, 96>>, Fence, <<106, 115, 111, 110>>, <<74, 83, 79, 78>>,
     <<32>>, <<10>>, <<123, 125>>, <<106>>}

StripInputs == {Concat(ps) : ps \in SeqsUpTo(Pieces, MaxPieces)}

StripOnce ==
    /\ s_pc = "raw"
    /\ s_once' = clean(s_in)
    /\ s_pc' = "once"
    /\ UNCHANGED <<s_in, s_twice, appVars, pdfVars>>

StripTwice ==
    /\ s_pc = "once"
    /\ s_twice' = clean(s_once)
    /\ s_pc' = "twice"
    /\ UNCHANGED <<s_in, s_once, appVars, pdfVars>>

\* ------------------------------------------ the page loop, page by page

\* page.extract_text(): None, the empty string, or text
PageResults == {None, <<>>, <<73>>, <<73, 10, 52>>}

PdfPage ==
    /\ p_pc = "loop"
    /\ page_i < Len(pages)
    /\ full_text' = full_text \o PageSegment(pages[page_i + 1])
    /\ page_i' = page_i + 1
    /\ UNCHANGED <<pages, p_pc, appVars, stripVars>>

PdfReturn ==
    /\ p_pc = "loop"
    /\ page_i = Len(pages)
    /\ p_pc' = "returned"
    /\ UNCHANGED <<pages, page_i, full_text, appVars, stripVars>>

\* ----------------------------------------------------------- specifications

InitApp ==
    /\ raw_text = None
    /\ structured_data = None
    /\ question = <<>>
    /\ uploaded_file = NoFile
    /\ question_input = <<>>
    /\ recipient_email = <<>>
    /\ run = NoRun
    /\ last = Ran("init", <<>>, <<>>, "none", FALSE, None, NoGen, NoPost,
                  NoContext)

IdleStrip == s_in = <<>> /\ s_pc = "idle" /\ s_once = <<>> /\ s_twice = <<>>
IdlePdf == pages = <<>> /\ page_i = 0 /\ full_text = <<>> /\ p_pc = "idle"

Init == InitApp /\ IdleStrip /\ IdlePdf

Next ==
    \/ Extract
    \/ Send
    \/ \E f \in Files \cup {NoFile} : SetFile(f)
    \/ \E q \in Questions : SetQuestion(q)
    \/ \E e \in Emails : SetRecipient(e)

Spec == Init /\ [][Next]_vars

InitStrip ==
    /\ InitApp
    /\ IdlePdf
    /\ s_in \in StripInputs
    /\ s_pc = "raw"
    /\ s_once = <<>>
    /\ s_twice = <<>>

NextStrip == StripOnce \/ StripTwice

SpecStrip == InitStrip /\ [][NextStrip]_vars

InitPdf ==
    /\ InitApp
    /\ IdleStrip
    /\ pages \in SeqsUpTo(PageResults, MaxPages)
    /\ page_i = 0
    /\ full_text = <<>>
    /\ p_pc = "loop"

NextPdf == PdfPage \/ PdfReturn

SpecPdf == InitPdf /\ [][NextPdf]_vars

\* ------------------------------------------------------------------ claims

HasLevel(l, level) == \E i \in DOMAIN l.msgs : l.msgs[i].level = level
HasTag(l, tag) == \E i \in DOMAIN l.msgs : l.msgs[i].tag = tag
Called(l, c) == \E i \in DOMAIN l.calls : l.calls[i] = c

\* A text that is {"error": "<message>"} with a non-empty message.
ErrorPayloadHead == <<123, 34, 101, 114, 114, 111, 114, 34, 58, 32, 34>>
ErrorPayloadTail == <<34, 125>>
IsErrorPayload(t) ==
    /\ t # None
    /\ Len(t) > Len(ErrorPayloadHead) + Len(ErrorPayloadTail)
    /\ SubSeq(t, 1, Len(ErrorPayloadHead)) = ErrorPayloadHead
    /\ SubSeq(t, Len(t) - 1, Len(t)) = ErrorPayloadTail

\* C1: when generate_content raises during an extraction run, the run does
\* not end in an exception: extract_structured_data returns a JSON object
\* with the single key error, and main stores that payload as the result
\* and displays it.
C1_ApiFailureReturnsErrorPayload ==
    (last.action = "extract" /\ last.gen.raises) =>
        /\ last.exc = "none"
        /\ IsErrorPayload(structured_data)
        /\ \E i \in DOMAIN last.msgs :
              last.msgs[i].level = "code" /\ last.msgs[i].body = structured_data

\* C2: for a completed POST, success is reported exactly when the status is
\* 200; any other status is reported as a failure carrying the status and
\* the body; success and failure are never both reported for one call.
C2_SuccessIffStatus200 ==
    (last.action = "send" /\ last.post.kind = "response") =>
        /\ HasLevel(last, "success") <=> last.post.status = 200
        /\ last.post.status # 200 =>
              \E i \in DOMAIN last.msgs :
                 last.msgs[i] = Msg("error", "n8n_status", last.post.status,
                                    last.post.body, "none")
        /\ ~(HasLevel(last, "success") /\ HasLevel(last, "error"))

\* C3: a 200 response whose body is not JSON is shown as raw text and the
\* delivery stays a success: no error is reported for that call.
C3_UnparsableBodyStaysSuccess ==
    (/\ last.action = "send"
     /\ last.post.kind = "response"
     /\ last.post.status = 200
     /\ last.post.body \notin JsonTexts) =>
        /\ HasLevel(last, "success")
        /\ \E i \in DOMAIN last.msgs :
              last.msgs[i] = Msg("write", "n8n_text", 0, last.post.body, "none")
        /\ ~HasLevel(last, "error")

\* C4: an action whose required input is missing issues no external call
\* and ends with an error message: extraction without a file or with a
\* blank question, sending with a blank recipient.
C4_MissingInputNoExternalCall ==
    /\ (/\ last.action = "extract"
        /\ (~uploaded_file.present \/ strip(question_input) = <<>>)) =>
           (last.calls = <<>> /\ HasLevel(last, "error") /\ last.exc = "none")
    /\ (last.action = "send" /\ strip(recipient_email) = <<>>) =>
           (last.calls = <<>> /\ HasLevel(last, "error") /\ last.exc = "none")

C4_Witness ==
    /\ last.action = "extract"
    /\ uploaded_file.present
    /\ question_input = <<32>>
    /\ HasTag(last, "need_question")

\* C5: an extraction run whose acquired text is blank ends with the
\* could-not-extract message, does not call the generative API and leaves
\* raw_text, structured_data and question as they were; a file that is
\* neither .txt nor .pdf yields exactly the empty text.
C5_EmptyTextHalts ==
    [][/\ (/\ last'.action = "extract"
           /\ last'.text # None
           /\ strip(last'.text) = <<>>) =>
              /\ HasTag(last', "no_text")
              /\ ~Called(last', "generate_content")
              /\ last'.exc = "none"
              /\ <<raw_text, structured_data, question>>'
                    = <<raw_text, structured_data, question>>
       /\ (/\ last'.action = "extract"
           /\ uploaded_file.present
           /\ strip(question_input) # <<>>
           /\ ~endswith(uploaded_file.name, SuffixTxt)
           /\ ~endswith(uploaded_file.name, SuffixPdf)) =>
              last'.text = <<>>]_vars

C5_Witness ==
    /\ last.action = "extract"
    /\ uploaded_file.name = NameOther
    /\ last.text = <<>>
    /\ HasTag(last, "no_text")
    /\ structured_data # None

\* C6: a POST that raises is caught and reported as a transport failure;
\* that report appears only when the request did not complete, and the
\* status report only for a response whose status is not 200.
C6_TransportFailureDistinct ==
    last.action = "send" =>
        /\ last.exc = "none"
        /\ last.post.kind = "raise" => HasTag(last, "n8n_exception")
        /\ HasTag(last, "n8n_exception") => last.post.kind = "raise"
        /\ HasTag(last, "n8n_status") =>
              (last.post.kind = "response" /\ last.post.status # 200)

\* C7: fence-stripping is idempotent: stripping the stripped text again
\* gives the same text.
C7_FenceStripIdempotent == s_pc = "twice" => s_twice = s_once

C7_Witness ==
    /\ s_pc = "twice"
    /\ s_once # <<>>
    /\ s_once # strip(s_in)

\* the text a page contributes: its text, empty when it yields none
PageText(p) == IF p = None THEN <<>> ELSE p

RECURSIVE SegmentsOf(_)
SegmentsOf(ps) ==
    IF ps = <<>> THEN <<>>
    ELSE PageText(Head(ps)) \o <<10>> \o SegmentsOf(Tail(ps))

Failed(l) ==
    /\ l.action \in {"extract", "send"}
    /\ (l.exc # "none" \/ HasLevel(l, "error"))

\* C9: after a failed or rejected action the session state is what it was
\* before, except that a generative-API failure is recovered: the run ends
\* without an exception and stores the error payload as the result, with
\* the text and the question of that run.  (A text-decode failure is left
\* to the framework's top-level display, as the error taxonomy describes
\* it; only the session state is required of it here.)
C9_FailureLeavesSessionIntact ==
    [][Failed(last') =>
          IF last'.gen.raises
          THEN /\ last'.exc = "none"
               /\ IsErrorPayload(structured_data')
               /\ raw_text' = last'.text
               /\ question' = question_input
          ELSE <<raw_text, structured_data, question>>'
                  = <<raw_text, structured_data, question>>]_vars

\* C10: the three session fields are set together, by a completed
\* extraction run: a set structured_data comes with the non-blank text and
\* the non-blank question of that run; every POST follows a completed run,
\* its body holds that run's question, result and text and a non-blank
\* recipient.
C10_SessionFromOneRun ==
    /\ structured_data = None =>
          (raw_text = None /\ question = <<>> /\ ~run.completed)
    /\ structured_data # None =>
          /\ run.completed
          /\ raw_text = run.raw_text
          /\ structured_data = run.structured_data
          /\ question = run.question
          /\ raw_text # None /\ strip(raw_text) # <<>>
          /\ strip(question) # <<>>
    /\ Called(last, "requests.post") =>
          /\ last.action = "send"
          /\ run.completed
          /\ Truthy(run.structured_data)
          /\ last.context.question = run.question
          /\ last.context.structured_data = run.structured_data
          /\ last.context.raw_text = run.raw_text
          /\ last.context.recipient_email = recipient_email
          /\ strip(last.context.recipient_email) # <<>>

C10_Witness ==
    /\ Called(last, "requests.post")
    /\ question_input # question
    /\ strip(question_input) # <<>>
    /\ last.post.kind = "response"

====
